---- MODULE Spec2Model ----
(***************************************************************************)
(* CustomerRetentionWorkflow (workers/python/workflows/                    *)
(* customer_retention_workflow.py) as a state machine.                     *)
(*                                                                         *)
(* The workflow coroutine `run` is cut at its suspension points (every     *)
(* await): one action per stretch of code between two awaits.  The         *)
(* environment is the task invoker, which completes or fails the activity  *)
(* invocations the workflow has issued, the human approver, who sends      *)
(* approve_resolution signals at any time, and the 30 minute timer of      *)
(* workflow.wait_condition.                                                *)
(***************************************************************************)
EXTENDS Integers, Sequences, FiniteSets, TLC

\* ------------------------------------------------------------------ bounds
\* Total number of approve_resolution signals sent to one run.
MaxSignals == 2

\* ------------------------------------------------------------- option type
\* Python's None / a present value, as a sequence of length 0 / 1.
None == <<>>
Some(x) == <<x>>
Get(o) == o[1]

\* --------------------------------------------------------------- constants
CI == "customer_intelligence_agent"
OI == "operations_investigation_agent"
RS == "retention_strategy_agent"
BI == "business_intelligence_agent"
CA == "case_analysis_agent"
SR == "suggest_resolution"

\* The eight parameters of required_params, and temperature.
RequiredParams ==
    {"postgres_host", "postgres_port", "postgres_db", "postgres_user",
     "postgres_password", "ollama_base_url", "model_name", "redis_url"}

AllParams == RequiredParams \cup {"temperature"}

\* Configurations handed to run: nothing missing, or one parameter missing.
Configs == {{}} \cup {{p} : p \in AllParams}

\* Customers and start times of a run.  A time is a second and the
\* microseconds within it.
Customers == {5, 7}
Timestamps == [s : 0..3, us : {0, 500000}]

\* Variant: the time is formatted to the minute (two seconds of the model).
StrftimeMinute(t) == t.s \div 2

\* start_time.strftime('%Y%m%d_%H%M%S'): the time to the second.
Strftime(t) == t.s

\* Line 146: f"retention_{complaint.customer_id}_{...}"
CaseId(c, t) == <<"retention", c, Strftime(t)>>

\* Texts the approver may put in followUp: empty, blank, and a real remark.
Texts == {"", " ", "more"}

\* str.strip() on the texts of the model.
Strip(s) == IF s \in {"", " "} THEN "" ELSE IF s = " more " THEN "more" ELSE s

DefaultFeedback == "This will not work. Please suggest something different."

\* The dict the approver sends: followUp may be a string or JSON null.
SignalData == [approve : BOOLEAN, followUp : {None} \cup {Some(t) : t \in Texts}]

\* What an activity returns: the fields of its dict the workflow reads.
\* A long text is kept as its runs: <<c, n>> is the character c, n times.
Txt(c, n) == <<<<c, n>>>>

RECURSIVE TLen(_)
TLen(t) == IF t = <<>> THEN 0 ELSE t[1][2] + TLen(Tail(t))

\* t[:n]
RECURSIVE TTake(_, _)
TTake(t, n) ==
    IF n = 0 \/ t = <<>> THEN <<>>
    ELSE IF t[1][2] <= n THEN <<t[1]>> \o TTake(Tail(t), n - t[1][2])
    ELSE <<<<t[1][1], n>>>>

\* d.get(k, default) of a dict d
DictGet(d, k, default) == IF k \in DOMAIN d THEN d[k] ELSE default
EmptyDict == [k \in {} |-> None]

\* The metrics the case analysis agent extracts from its own response.
ExtractedMetrics(retained, probability, value) ==
    [customer_retained |-> retained,
     retention_probability_percent |-> probability,
     total_estimated_value |-> value]

\* What the case analysis agent returns: extracted_metrics is an entry of
\* metadata, on success and on failure alike.
CaseAnalysis(ok, metrics) ==
    [success |-> ok,
     response |-> IF ok THEN "analysis" ELSE "agent failed",
     metadata |-> [extracted_metrics |-> metrics]]

\* The dicts an activity may return.  The business intelligence response is
\* a long text: 501, 500 or (the apology of the failure path) 40 characters.
Payloads(name) ==
    IF name = SR
    THEN {[success |-> TRUE, response |-> "plan_a"],
          [success |-> TRUE, response |-> "plan_b"],
          [success |-> FALSE, response |-> "agent failed"]}
    ELSE IF name = BI
    THEN {[success |-> TRUE, response |-> Txt("r", 501)],
          [success |-> TRUE, response |-> Txt("r", 500)],
          [success |-> FALSE, response |-> Txt("e", 40)]}
    ELSE IF name = CA
    THEN {CaseAnalysis(TRUE, ExtractedMetrics(None, 72, 3200)),
          CaseAnalysis(TRUE, ExtractedMetrics(None, 49, 3200)),
          CaseAnalysis(TRUE, ExtractedMetrics(Some(TRUE), 49, 3200)),
          CaseAnalysis(FALSE, ExtractedMetrics(Some(FALSE), 0, 0))}
    ELSE {[success |-> TRUE, response |-> "report"],
          [success |-> FALSE, response |-> "agent failed"]}

VARIABLES
    missing,               \* the parameters of run that are empty or None
    customer_id,           \* complaint.customer_id
    start_time,            \* workflow.now() at the start of run
    case_id,               \* the case id run derives, None before
    store,                 \* the Case Store: case id -> record of result slots
    pc,                    \* where the coroutine run is suspended
    acts,                  \* the activity invocations issued so far, in order
    awaiting,              \* handles (indices of acts) run is awaiting
    human_approval,        \* self.human_approval
    customer_analysis,     \* locals of run, None until assigned
    investigation,
    strategy_result,
    bi_result,
    case_analysis_result,
    resolution_result,
    resolution_attempts,
    resolution_approved,
    final_resolution,
    current_feedback,
    result,                \* the RetentionResult run returned, None before
    obs,                   \* history of deliveries and waits (observer only)
    calls,                 \* the store tool call each agent task is in, None if idle
    now,                   \* datetime.now(), in ticks
    acked,                 \* decision points whose append was reported (observer only)
    reply,                 \* what the last finished tool call returned (observer only)
    ttl,                   \* the case ids whose redis key has a time to live
    cmissing,              \* InteractiveConversationWorkflow: parameters empty or None
    cpc,                   \* where its coroutine run is suspended
    continue_conversation, \* self.continue_conversation
    latest_user_feedback,  \* self.latest_user_feedback
    conversation_history,  \* self.conversation_history
    current_query,         \* local of run
    process,               \* the process_with_agent invocation of this turn
    summary,               \* the dict run returned, None before
    cobs,                  \* history of the conversation (observer only)
    site,                  \* worker: the activity invocation being dispatched
    bound,                 \* worker: <<parameter, argument>> pairs bound so far
    outcome                \* worker: how far the dispatch has come

vars == <<missing, customer_id, start_time, case_id, store, pc, acts, awaiting, human_approval, customer_analysis,
          investigation, strategy_result, bi_result, case_analysis_result,
          resolution_result, resolution_attempts, resolution_approved,
          final_resolution, current_feedback, result, obs,
          calls, now, acked, reply, ttl,
          cmissing, cpc, continue_conversation, latest_user_feedback,
          conversation_history, current_query, process, summary, cobs,
          site, bound, outcome>>

\* Lines 135 and 139: the names in missing_params, and `temperature is None`.
MissingParams == missing \cap RequiredParams

\* Variant: temperature is not looked at.
TemperatureUnchecked == FALSE

TemperatureMissing == "temperature" \in missing

ValidationFails == MissingParams # {} \/ TemperatureMissing

inputs == <<missing, customer_id, start_time>>

\* The variables of run other than the store.
workflow == <<missing, customer_id, start_time, case_id, pc, acts, awaiting,
              human_approval, customer_analysis, investigation, strategy_result,
              bi_result, case_analysis_result, resolution_result,
              resolution_attempts, resolution_approved, final_resolution,
              current_feedback, result, obs>>

\* The variables of the store tools; of the components other than run.
tools == <<calls, now, acked, reply, ttl>>
conversation == <<cmissing, cpc, continue_conversation, latest_user_feedback,
                  conversation_history, current_query, process, summary, cobs>>
dispatch == <<site, bound, outcome>>
others == <<tools, conversation, dispatch>>

\* ------------------------------------------------------------- Case Store
\* The Case Store holds, per case id, the state create_retention_case wrote
\* (asdict(RetentionCaseState)).  A result slot is absent (FALSE) or holds
\* the payload its agent saved (TRUE).
EmptyStore == [k \in {} |-> None]

RetentionCaseState(k, c, t) ==
    [case_id |-> k, customer_id |-> c, created_at |-> t,
     customer_profile |-> FALSE, investigation |-> FALSE,
     strategy |-> FALSE, communication_result |-> FALSE,
     urgency_level |-> "medium", estimated_value |-> 0,
     priority_escalated |-> FALSE, decision_points |-> <<>>]

\* redis hset / delete of the key retention_case:{k}
Put(st, k, v) == [x \in DOMAIN st \cup {k} |-> IF x = k THEN v ELSE st[x]]
Remove(st, k) == [x \in DOMAIN st \ {k} |-> st[x]]

\* What a task has written to the store by the time it returns.  A task
\* that succeeds has followed its instructions: the customer intelligence
\* agent creates the case and fills its slot, the operations and strategy
\* agents fill theirs when the case exists (update_case_state refuses
\* otherwise); the others only read.  A task that fails wrote nothing.
StoreAfter(st, cid, name, p) ==
    IF ~p.success THEN st
    ELSE IF name = CI
         THEN Put(st, cid, [RetentionCaseState(cid, customer_id, now)
                               EXCEPT !.customer_profile = TRUE])
    ELSE IF name = OI /\ cid \in DOMAIN st
         THEN [st EXCEPT ![cid].investigation = TRUE]
    ELSE IF name = RS /\ cid \in DOMAIN st
         THEN [st EXCEPT ![cid].strategy = TRUE]
    ELSE st

locals12 == <<customer_analysis, investigation>>
locals345 == <<strategy_result, bi_result, case_analysis_result>>
loopvars == <<resolution_result, resolution_attempts, resolution_approved,
              final_resolution, current_feedback>>

\* ------------------------------------------------------------ task invoker
\* workflow.execute_activity(name, ...): a new invocation, in flight.
Invocation(name) == [name |-> name, status |-> "running", payload |-> None]

\* dict.get("success", False) / dict.get("response", "") on an awaited result.
\* Variant: the response of the first candidate is kept.
StaleResponse(inv) == IF final_resolution # "" THEN final_resolution
                      ELSE IF inv.payload = None THEN "" ELSE Get(inv.payload).response

SuccessOf(inv) == IF inv.payload = None THEN FALSE ELSE Get(inv.payload).success
ResponseOf(inv) == IF inv.payload = None THEN "" ELSE Get(inv.payload).response

Returned(h) == acts[h].status = "returned"
Raised(h) == acts[h].status = "raised"

\* Variants of the join: going on at the first result (FIRST_COMPLETED), and
\* going on without awaiting at all.
JoinReadyFirst(hs) == \E h \in hs : Returned(h)
JoinReadyNoAwait(hs) == TRUE

\* await asyncio.gather(a, b, return_exceptions=False) and a plain await:
\* the results are there when every awaited invocation has returned ...
JoinReady(hs) == \A h \in hs : Returned(h)

\* ... and the await raises as soon as one of them has raised.
JoinRaises(hs) == \E h \in hs : Raised(h)

Closed == pc \in {"returned", "failed", "rejected"}

InFlight(name) == {i \in 1..Len(acts) : acts[i].name = name /\ acts[i].status = "running"}
Issued(name) == {i \in 1..Len(acts) : acts[i].name = name}

\* --------------------------------------------------------------------- Init
InitRun(customers, times) ==
    /\ missing \in Configs
    /\ customer_id \in customers
    /\ start_time \in times
    /\ case_id = None
    /\ store = EmptyStore
    /\ pc = "start"
    /\ acts = <<>>
    /\ awaiting = {}
    /\ human_approval = None
    /\ customer_analysis = None
    /\ investigation = None
    /\ strategy_result = None
    /\ bi_result = None
    /\ case_analysis_result = None
    /\ resolution_result = None
    /\ resolution_attempts = 0
    /\ resolution_approved = FALSE
    /\ final_resolution = ""
    /\ current_feedback = ""
    /\ result = None
    /\ obs = [waits |-> 0, timeouts |-> 0, sigTotal |-> 0, sigIn |-> 0,
              declIn |-> 0, sigCur |-> 0, multi |-> FALSE, lastIn |-> "none",
              held |-> None, resolved |-> "none", consumed |-> None]

\* ------------------------------------------------------------------ workers
\* worker.py: the task queue each workflow is served on and the activities
\* registered on each queue.
WorkflowQueue(w) ==
    CASE w \in {"SayHello", "AgentWorkflow"} -> "hello-task-queue"
      [] w = "CustomerRetentionWorkflow" -> "customer-retention-queue"
      [] w = "InteractiveConversationWorkflow" -> "interactive-conversation-queue"

Registered(queue) ==
    CASE queue = "hello-task-queue" -> {"say_hello", "process_with_agent"}
      [] queue = "customer-retention-queue" ->
             {"process_with_retention_agent", CI, OI, RS, BI, CA, SR}
      [] queue = "interactive-conversation-queue" -> {"process_with_agent"}

\* The parameters every agent activity ends with, and the arguments of the
\* same names every workflow passes.
ModelParams == <<"ollama_base_url", "model_name", "temperature", "redis_url">>
PostgresParams == <<"postgres_host", "postgres_port", "postgres_db",
                    "postgres_user", "postgres_password">>
CaseParams == <<"case_id", "customer_id", "complaint_details">>

\* The parameter list of each activity (activities/*.py; say_hello is
\* registered, but its definition is not among these modules).
Params(name) ==
    CASE name = "process_with_agent" -> <<"messages", "thread_id">> \o ModelParams
      [] name = OI -> CaseParams \o <<"order_ids">> \o ModelParams \o PostgresParams
      [] name = SR -> <<"case_id", "feedback">> \o ModelParams \o PostgresParams
      [] OTHER -> CaseParams \o ModelParams \o PostgresParams

\* The parameters of an activity that have a default value, all at the end.
Defaults(name) == IF name = "process_with_agent" THEN 5 ELSE 0

\* The execute_activity calls of the workflows on the activities above,
\* with their args lists.
Sites ==
    {[workflow |-> "AgentWorkflow", activity |-> "process_with_agent",
      args |-> <<"query", "thread_id">> \o ModelParams \o PostgresParams],
     [workflow |-> "InteractiveConversationWorkflow", activity |-> "process_with_agent",
      args |-> <<"current_query", "thread_id">> \o ModelParams \o PostgresParams],
     [workflow |-> "CustomerRetentionWorkflow", activity |-> OI,
      args |-> CaseParams \o <<"order_ids">> \o ModelParams \o PostgresParams],
     [workflow |-> "CustomerRetentionWorkflow", activity |-> SR,
      args |-> <<"case_id", "current_feedback">> \o ModelParams \o PostgresParams]}
    \cup {[workflow |-> "CustomerRetentionWorkflow", activity |-> a,
           args |-> CaseParams \o ModelParams \o PostgresParams] :
              a \in {CI, RS, BI, CA}}

\* The parameter an argument of a workflow is meant for.
Carries(arg) ==
    CASE arg \in {"query", "current_query"} -> "messages"
      [] arg = "current_feedback" -> "feedback"
      [] OTHER -> arg

\* An activity task has been scheduled for one of the invocations.
InitDispatch(sites) ==
    /\ site \in sites
    /\ bound = <<>>
    /\ outcome = "scheduled"

\* No store tool call has begun.
InitTools ==
    /\ calls = [t \in {CI, OI} |-> None]
    /\ now = 0
    /\ acked = {}
    /\ reply = None
    /\ ttl = {}

\* InteractiveConversationWorkflow.__init__ (lines 37-40), run not begun.
InitConversation(configs) ==
    /\ cmissing \in configs
    /\ cpc = "start"
    /\ continue_conversation = TRUE
    /\ latest_user_feedback = None
    /\ conversation_history = <<>>
    /\ current_query = ""
    /\ process = None
    /\ summary = None
    /\ cobs = [signals |-> 0, invoked |-> 0, completed |-> 0, timeouts |-> 0,
               consumed |-> None, continued |-> 0, held |-> None, early |-> 0]

\* One run, of customer 5 (the client's complaint).
Init ==
    /\ InitRun({5}, {[s |-> 0, us |-> 0]})
    /\ InitTools
    /\ InitConversation({{}})
    /\ InitDispatch({CHOOSE x \in Sites : x.workflow = "AgentWorkflow"})

\* ------------------------------------------------------------- environment
\* The task invoker delivers the result dict of an invocation in flight.
ActivityReturns ==
    /\ ~Closed
    /\ \E i \in 1..Len(acts) :
         /\ acts[i].status = "running"
         /\ \E p \in Payloads(acts[i].name) :
              /\ acts' = [acts EXCEPT ![i] = [@ EXCEPT !.status = "returned",
                                                       !.payload = Some(p)]]
              /\ store' = StoreAfter(store, Get(case_id), acts[i].name, p)
    /\ UNCHANGED <<others, inputs, case_id, pc, awaiting, human_approval, locals12, locals345,
                   loopvars, result, obs>>

\* The task invoker gives up on an invocation in flight: awaiting it raises
\* ActivityError in the workflow.
ActivityRaises ==
    /\ ~Closed
    /\ \E i \in 1..Len(acts) :
         /\ acts[i].status = "running"
         /\ acts' = [acts EXCEPT ![i] = [@ EXCEPT !.status = "raised"]]
    /\ UNCHANGED <<others, inputs, case_id, store, pc, awaiting, human_approval, locals12, locals345,
                   loopvars, result, obs>>

\* The observer's record of a delivery: during a wait, or outside one.
ObserveSignal(d) ==
    IF pc = "waiting"
    THEN [obs EXCEPT !.sigTotal = @ + 1, !.sigIn = @ + 1,
                     !.declIn = IF d.approve THEN @ ELSE @ + 1,
                     !.sigCur = @ + 1,
                     !.multi = @ \/ obs.sigCur >= 1,
                     !.lastIn = IF d.approve THEN "approve" ELSE "decline"]
    ELSE [obs EXCEPT !.sigTotal = @ + 1, !.held = Some(d)]

\* HumanApproval(approve=approval_data.get("approve", False),
\*               followUp=approval_data.get("followUp", ""))
HumanApproval(d) == [approve |-> d.approve, followUp |-> d.followUp]

\* approve_resolution: the signal handler, at any time while the workflow is open.
approve_resolution ==
    /\ ~Closed
    /\ obs.sigTotal < MaxSignals
    /\ \E d \in SignalData :
         /\ human_approval' = Some(HumanApproval(d))
         /\ obs' = ObserveSignal(d)
    /\ UNCHANGED <<others, inputs, case_id, store, pc, acts, awaiting, locals12, locals345, loopvars,
                   result>>

\* ------------------------------------------------------------------ run
\* Lines 135-140: a missing parameter raises ValueError before anything runs.
ValidateRejects ==
    /\ pc = "start"
    /\ ValidationFails
    /\ pc' = "rejected"
    /\ UNCHANGED <<others, inputs, case_id, store, acts, awaiting, human_approval, locals12, locals345,
                   loopvars, result, obs>>

\* Variant: run itself creates the case record.
StoreWithCase(st, cid) == Put(st, cid, RetentionCaseState(cid, customer_id, now))

\* Line 149: run leaves the case record to the customer intelligence agent.
StoreAtStart(st, cid) == st

\* Lines 120-200: the parameters are valid; the case id is derived and both
\* stage-2 invocations are issued, then gather is awaited.
StartPipeline ==
    /\ pc = "start"
    /\ ~ValidationFails
    /\ case_id' = Some(CaseId(customer_id, start_time))
    /\ store' = StoreAtStart(store, CaseId(customer_id, start_time))
    /\ acts' = acts \o <<Invocation(CI), Invocation(OI)>>
    /\ awaiting' = {Len(acts) + 1, Len(acts) + 2}
    /\ pc' = "stage2"
    /\ UNCHANGED <<others, inputs, human_approval, locals12, locals345, loopvars,
                   result, obs>>

\* Lines 196-224: gather returned both results; the strategy agent is issued.
Stage2Joined ==
    /\ pc = "stage2"
    /\ ~JoinRaises(awaiting)
    /\ JoinReady(awaiting)
    /\ customer_analysis' = acts[1].payload
    /\ investigation' = acts[2].payload
    /\ acts' = Append(acts, Invocation(RS))
    /\ awaiting' = {Len(acts) + 1}
    /\ pc' = "stage3"
    /\ UNCHANGED <<others, inputs, case_id, store, human_approval, locals345, loopvars, result, obs>>

\* Lines 207-276: the strategy result is in; both stage 4-5 invocations are
\* issued, then gather is awaited.
Stage3Done ==
    /\ pc = "stage3"
    /\ ~JoinRaises(awaiting)
    /\ JoinReady(awaiting)
    /\ strategy_result' = acts[3].payload
    /\ acts' = acts \o <<Invocation(BI), Invocation(CA)>>
    /\ awaiting' = {Len(acts) + 1, Len(acts) + 2}
    /\ pc' = "stage45"
    /\ UNCHANGED <<others, inputs, case_id, store, human_approval, locals12, bi_result,
                   case_analysis_result, loopvars, result, obs>>

\* Variant: every stage is reported as successful.
FlagAlwaysTrue(r) == TRUE

\* strategy_executed of the RetentionResult (lines 368-375).
Flag(r) == IF r = None THEN FALSE ELSE Get(r).success

StrategyExecuted(rr) ==
    [customer_intelligence |-> Flag(customer_analysis),
     operations_investigation |-> Flag(investigation),
     retention_strategy |-> Flag(strategy_result),
     business_intelligence |-> Flag(bi_result),
     case_analysis |-> Flag(case_analysis_result),
     resolution_suggestion |-> Flag(rr)]

\* The locals of run that are live at line 347.
Locals(approved) ==
    [strategy_result |-> Get(strategy_result),
     bi_result |-> Get(bi_result),
     case_analysis_result |-> Get(case_analysis_result),
     resolution_approved |-> approved]

\* Line 348: metrics = case_analysis_result.get("extracted_metrics", {})
Metrics(loc) == DictGet(loc.case_analysis_result, "extracted_metrics", EmptyDict)

\* Line 355: the threshold of the fallback rule.
RetentionThreshold == 50

\* Variant: the verdict is the business intelligence stage's success flag.
RetainedFromReport(loc) == loc.bi_result.success

\* Lines 351-355: the explicit verdict, else the probability rule.
CustomerRetained(loc) ==
    LET explicit == DictGet(Metrics(loc), "customer_retained", None)
    IN  IF explicit # None
        THEN Get(explicit)
        ELSE DictGet(Metrics(loc), "retention_probability_percent", 0)
                 >= RetentionThreshold

\* Line 357
TotalEstimatedValue(loc) == DictGet(Metrics(loc), "total_estimated_value", 0)

\* Line 376: the slice and the marker.
SummaryLimit == 500
Marker == Txt(".", 3)
NotAvailable == Txt("n", 30)

\* Line 376: bi_result.get("response", ...)[:500] + "..."
ExecutiveSummary(loc) ==
    TTake(DictGet(loc.bi_result, "response", NotAvailable), SummaryLimit)
        \o Marker

\* Lines 364-381: the RetentionResult.
RetentionResult(approved, resolution, attempts, rr) ==
    [customer_retained |-> CustomerRetained(Locals(approved)),
     total_estimated_value |-> TotalEstimatedValue(Locals(approved)),
     executive_summary |-> ExecutiveSummary(Locals(approved)),
     strategy_executed |-> StrategyExecuted(rr),
     resolution_approved |-> approved,
     final_resolution |-> resolution,
     resolution_attempts |-> attempts]

\* Variant: the counter is not advanced.
SameAttempt(n) == n

\* Line 290: resolution_attempts += 1
NextAttempt(n) == n + 1

\* Line 289 onwards, entered with the loop variables as they now stand:
\* `while not resolution_approved` either starts another attempt (lines
\* 290-310, up to the await) or falls through to lines 341-381 and returns.
\* Lines 295-310: the suggest_resolution invocation and the feedback argument
\* it is given.
SuggestResolution(feedback) ==
    [name |-> SR, status |-> "running", payload |-> None, feedback |-> feedback]

\* Variant: the loop gives up after its first attempt.
LoopOnce(approved) == ~approved /\ resolution_attempts = 0

\* Line 289: while not resolution_approved
LoopContinues(approved) == ~approved

LoopHead(approved, feedback) ==
    /\ resolution_approved' = approved
    /\ current_feedback' = feedback
    /\ IF LoopContinues(approved)
       THEN /\ resolution_attempts' = NextAttempt(resolution_attempts)
            /\ acts' = Append(acts, SuggestResolution(feedback))
            /\ awaiting' = {Len(acts) + 1}
            /\ pc' = "generating"
            /\ result' = result
       ELSE /\ resolution_attempts' = resolution_attempts
            /\ acts' = acts
            /\ awaiting' = {}
            /\ pc' = "returned"
            /\ result' = Some(RetentionResult(approved, final_resolution,
                                              resolution_attempts,
                                              resolution_result))

\* Lines 272-310: gather returned both results; the loop variables are set
\* (283-286) and the first attempt is issued.
Stage45Joined ==
    /\ pc = "stage45"
    /\ ~JoinRaises(awaiting)
    /\ JoinReady(awaiting)
    /\ bi_result' = acts[4].payload
    /\ case_analysis_result' = acts[5].payload
    /\ LoopHead(FALSE, "")
    /\ UNCHANGED <<others, inputs, case_id, store, human_approval, locals12, strategy_result,
                   resolution_result, final_resolution, obs>>

\* Variant: the latch is left as it is on entry to the wait.
KeptApproval == human_approval

\* Line 316: self.human_approval = None
ClearedApproval == None

\* Lines 294-323: the suggestion is in; the latch is reset and the wait begins.
ResolutionGenerated ==
    /\ pc = "generating"
    /\ ~JoinRaises(awaiting)
    /\ JoinReady(awaiting)
    /\ \E h \in awaiting :
         /\ resolution_result' = acts[h].payload
         /\ final_resolution' = ResponseOf(acts[h])
    /\ human_approval' = ClearedApproval
    /\ awaiting' = {}
    /\ pc' = "waiting"
    /\ obs' = [obs EXCEPT !.waits = @ + 1, !.sigCur = 0]
    /\ UNCHANGED <<others, inputs, case_id, store, acts, locals12, locals345, resolution_attempts,
                   resolution_approved, current_feedback, result>>

\* Line 332: the feedback of a decline; followUp.strip() on None raises
\* AttributeError inside the try block.
FeedbackRaises(a) == a.followUp = None

\* Variant: followUp is tested without strip().
FeedbackUnstripped(a) ==
    IF Get(a.followUp) # "" THEN Get(a.followUp) ELSE DefaultFeedback

FeedbackOf(a) ==
    IF Strip(Get(a.followUp)) # "" THEN Get(a.followUp) ELSE DefaultFeedback

\* Lines 325-339 with the condition of wait_condition true: the latched
\* signal is read.  An approval ends the loop, a decline sets the feedback
\* and loops, and an exception raised on the way is taken for the timeout.
ApprovalReceived ==
    /\ pc = "waiting"
    /\ human_approval # None
    /\ LET approval == Get(human_approval) IN
         IF approval.approve
         THEN LoopHead(TRUE, current_feedback)
         ELSE IF FeedbackRaises(approval)
              THEN LoopHead(TRUE, current_feedback)
              ELSE LoopHead(FALSE, FeedbackOf(approval))
    /\ obs' = [obs EXCEPT !.held = None, !.consumed = human_approval,
                          !.resolved = IF obs.sigCur >= 1 THEN "fresh" ELSE "stale"]
    /\ UNCHANGED <<others, inputs, case_id, store, human_approval, locals12, locals345,
                   resolution_result, final_resolution>>

\* Variant: a timeout leaves the resolution unapproved.
TimeoutDeclined == FALSE

\* Line 339: resolution_approved = True
TimeoutApproved == TRUE

\* Lines 335-339: thirty minutes passed with the condition false.
ApprovalTimeout ==
    /\ pc = "waiting"
    /\ human_approval = None
    /\ LoopHead(TimeoutApproved, current_feedback)
    /\ obs' = [obs EXCEPT !.held = None, !.timeouts = @ + 1,
                          !.resolved = "timeout"]
    /\ UNCHANGED <<others, inputs, case_id, store, human_approval, locals12, locals345,
                   resolution_result, final_resolution>>

\* An awaited invocation raised: nothing in run catches it outside the wait's
\* try block, so run raises and the workflow fails.
RunRaises ==
    /\ pc \in {"stage2", "stage3", "stage45", "generating"}
    /\ JoinRaises(awaiting)
    /\ pc' = "failed"
    /\ awaiting' = {}
    /\ UNCHANGED <<others, inputs, case_id, store, acts, human_approval, locals12, locals345, loopvars,
                   result, obs>>

Next ==
    \/ ActivityReturns
    \/ ActivityRaises
    \/ approve_resolution
    \/ ValidateRejects
    \/ StartPipeline
    \/ Stage2Joined
    \/ Stage3Done
    \/ Stage45Joined
    \/ ResolutionGenerated
    \/ ApprovalReceived
    \/ ApprovalTimeout
    \/ RunRaises

Spec == Init /\ [][Next]_vars

\* ------------------------------------------------------------------ claims
SRCount == Cardinality(Issued(SR))
SRReturned == {i \in Issued(SR) : acts[i].status = "returned"}
ResolvedWaits == IF pc = "waiting" THEN obs.waits - 1 ELSE obs.waits

\* Every wait of the run got exactly one signal, all declines but the last,
\* which approved, and the run returned.
OneSignalPerWait ==
    /\ pc = "returned"
    /\ obs.timeouts = 0
    /\ ~obs.multi
    /\ obs.lastIn = "approve"
    /\ obs.declIn = obs.sigIn - 1

\* C1: when N declines, each delivered during its own approval wait, are
\* followed by an approval delivered during the next wait, suggest_resolution
\* has been invoked exactly N+1 times and the result has
\* resolution_attempts = N+1 and resolution_approved = true.
C1_ApproveAfterNDeclines ==
    OneSignalPerWait =>
        /\ SRCount = obs.declIn + 1
        /\ Get(result).resolution_attempts = obs.declIn + 1
        /\ Get(result).resolution_approved = TRUE

C1_Witness == OneSignalPerWait /\ obs.declIn = 1 /\ obs.sigTotal = 2

\* C2: with no signal ever delivered the loop makes one attempt and one wait,
\* a run that has reached the wait does not fail but ends it by the timeout,
\* and the result is approved, with one attempt and the one generated
\* candidate as final_resolution.
C2_NoSignalTimesOutOnce ==
    obs.sigTotal = 0 =>
        /\ resolution_attempts <= 1
        /\ obs.waits <= 1
        /\ obs.waits >= 1 => pc \in {"waiting", "returned"}
        /\ pc = "returned" =>
             /\ obs.waits = 1
             /\ obs.timeouts = 1
             /\ SRCount = 1
             /\ Get(result).resolution_approved = TRUE
             /\ Get(result).resolution_attempts = 1
             /\ Get(result).final_resolution = ResponseOf(acts[6])

C2_Witness == pc = "returned" /\ obs.sigTotal = 0 /\ obs.timeouts = 1

\* C3: a signal delivered while no wait was active is still latched when the
\* next wait begins, so that it is the signal that resolves that wait.
C3_HeldSignalResolvesWait ==
    (pc = "waiting" /\ obs.held # None /\ obs.sigCur = 0) =>
        human_approval = obs.held

\* C4: a wait in which no signal has been delivered yet has an empty latch,
\* whatever was latched before it began, and no wait is ever resolved by a
\* signal delivered before it began.
C4_LatchClearedOnWaitEntry ==
    /\ (pc = "waiting" /\ obs.sigCur = 0) => human_approval = None
    /\ obs.resolved # "stale"

C4_Witness ==
    pc = "waiting" /\ obs.held # None /\ obs.sigCur = 0 /\ human_approval = None

\* C5: a run with a valid configuration never ends by failing, and the result
\* it returns has resolution_attempts >= 1.
C5_RunReturns ==
    missing = {} =>
        /\ pc # "failed"
        /\ pc = "returned" => Get(result).resolution_attempts >= 1

\* C6: at most one suggest_resolution invocation is in flight, none is in
\* flight during a wait, a wait begins only after the invocation before it
\* returned, and an invocation is issued only after every earlier wait was
\* resolved.
C6_GenerationAndWaitAlternate ==
    /\ Cardinality(InFlight(SR)) <= 1
    /\ pc = "waiting" => InFlight(SR) = {}
    /\ InFlight(SR) # {} => pc = "generating"
    /\ obs.waits <= Cardinality(SRReturned)
    /\ SRCount <= ResolvedWaits + 1

C6_Witness == pc = "generating" /\ InFlight(SR) # {} /\ obs.waits >= 1

AllCompleted(names) ==
    \A n \in names : Issued(n) # {} /\ InFlight(n) = {}

\* C7: retention_strategy_agent is issued only after both stage-2 agents have
\* completed, the two stage 4-5 agents only after retention_strategy_agent
\* has completed, and suggest_resolution only after both stage 4-5 agents
\* have completed.
C7_StageBarriers ==
    /\ Issued(RS) # {} => AllCompleted({CI, OI})
    /\ Issued(BI) \cup Issued(CA) # {} => AllCompleted({RS})
    /\ Issued(SR) # {} => AllCompleted({BI, CA})

C7_Witness ==
    /\ Issued(SR) # {}
    /\ ~SuccessOf(acts[1]) /\ SuccessOf(acts[2])
    /\ SuccessOf(acts[4]) /\ ~SuccessOf(acts[5])

Failed(i) == Raised(i) \/ (Returned(i) /\ ~SuccessOf(acts[i]))
Succeeded(i) == Returned(i) /\ SuccessOf(acts[i])

\* C8: when exactly one of the two stage-2 agents failed and the other
\* succeeded, a run that has ended has invoked retention_strategy_agent, and
\* a returned strategy_executed holds exactly one false for the pair.
C8_FailOpenJoin ==
    (/\ Closed
     /\ Len(acts) >= 2
     /\ (Failed(1) /\ Succeeded(2)) \/ (Succeeded(1) /\ Failed(2))) =>
        /\ Issued(RS) # {}
        /\ pc = "returned" =>
             Get(result).strategy_executed.customer_intelligence #
                 Get(result).strategy_executed.operations_investigation

\* C9: an invocation that raised does not abort the run: the run does not
\* fail, and it ends by returning a result.
C9_InvocationFailureIsData ==
    (\E i \in 1..Len(acts) : Raised(i)) =>
        /\ pc # "failed"
        /\ Closed => pc = "returned"

\* C10: the run has left neither join, be it to a later stage or by ending,
\* while a member of that join is still in flight.
C10_JoinWaitsForAll ==
    /\ pc \notin {"start", "stage2"} => InFlight(CI) \cup InFlight(OI) = {}
    /\ pc \notin {"start", "stage2", "stage3", "stage45"} =>
           InFlight(BI) \cup InFlight(CA) = {}


(***************************************************************************)
(* Validation, case id                                                     *)
(***************************************************************************)

\* C13: when a required configuration field is absent or empty, run raises
\* before it issues any task invocation: no invocation exists, no result is
\* returned, and the run is at its start or has raised the precondition error.
C13_RejectsBeforeAnyInvocation ==
    missing # {} =>
        /\ acts = <<>>
        /\ result = None
        /\ case_id = None
        /\ pc \in {"start", "rejected"}

\* run has raised because only temperature is None.
C13_Witness == pc = "rejected" /\ missing = {"temperature"} /\ acts = <<>>

\* Runs that differ only in customer and start time, up to the derivation of
\* the case id.
InitCaseId ==
    /\ InitRun(Customers, Timestamps)
    /\ InitTools
    /\ InitConversation({{}})
    /\ InitDispatch({CHOOSE x \in Sites : x.workflow = "AgentWorkflow"})
NextCaseId == StartPipeline \/ ValidateRejects
SpecCaseId == InitCaseId /\ [][NextCaseId]_vars

\* C14 as stated: a second run of the same customer, started at any other
\* time, derives a case id different from this run's.
C14_DifferentTimeDifferentCase ==
    case_id # None =>
        \A t2 \in Timestamps :
            t2 # start_time => CaseId(customer_id, t2) # Get(case_id)

\* C14, amended: a second run of the same customer, started in another
\* second, derives a case id different from this run's.
C14_DifferentSecondDifferentCase ==
    case_id # None =>
        \A t2 \in Timestamps :
            t2.s # start_time.s => CaseId(customer_id, t2) # Get(case_id)

\* A run started half a second into second 1 has derived its case id.
C14_Witness ==
    /\ case_id # None
    /\ start_time = [s |-> 1, us |-> 500000]
    /\ Get(case_id) = CaseId(customer_id, [s |-> 1, us |-> 0])

(***************************************************************************)
(* The returned result                                                     *)
(***************************************************************************)

\* The metrics the case analysis invocation returned.
ReturnedMetrics == Get(acts[5].payload).metadata.extracted_metrics

\* C11: the returned customer_retained is the explicit verdict the case
\* analysis agent extracted when there is one, and otherwise whether the
\* extracted probability reaches the threshold.
C11_VerdictFollowsExtraction ==
    pc = "returned" =>
        Get(result).customer_retained =
            IF ReturnedMetrics.customer_retained # None
            THEN Get(ReturnedMetrics.customer_retained)
            ELSE ReturnedMetrics.retention_probability_percent >= RetentionThreshold

\* C12: executive_summary is the first 500 characters of the business
\* intelligence response and the marker when the response is longer than
\* 500 characters, and the response itself otherwise.
C12_SummaryTruncatedOnlyWhenLong ==
    pc = "returned" =>
        LET response == Get(acts[4].payload).response
        IN  Get(result).executive_summary =
                IF TLen(response) > SummaryLimit
                THEN TTake(response, SummaryLimit) \o Marker
                ELSE response

\* C15: strategy_executed is in every returned result, and its entry for each
\* of the five pipeline tasks is the success flag that task returned.
C15_FlagsVerbatim ==
    pc = "returned" =>
        /\ "strategy_executed" \in DOMAIN Get(result)
        /\ LET flags == Get(result).strategy_executed
           IN  /\ flags.customer_intelligence = Get(acts[1].payload).success
               /\ flags.operations_investigation = Get(acts[2].payload).success
               /\ flags.retention_strategy = Get(acts[3].payload).success
               /\ flags.business_intelligence = Get(acts[4].payload).success
               /\ flags.case_analysis = Get(acts[5].payload).success

\* A run returned after the strategy task failed and the report succeeded.
C15_Witness ==
    /\ pc = "returned"
    /\ ~Get(acts[3].payload).success
    /\ Get(acts[4].payload).success
    /\ ~Get(result).strategy_executed.retention_strategy
    /\ Get(result).strategy_executed.business_intelligence

\* C16: when the loop has ended, resolution_attempts is the number of
\* suggest_resolution invocations issued and final_resolution is the
\* response the last of them returned.
C16_AttemptsAndLastCandidate ==
    pc = "returned" =>
        /\ Get(result).resolution_attempts = SRCount
        /\ acts[Len(acts)].name = SR
        /\ Get(result).final_resolution = Get(acts[Len(acts)].payload).response

\* A run returned after two candidates with different responses.
C16_Witness ==
    /\ pc = "returned"
    /\ SRCount = 2
    /\ Get(acts[6].payload).response # Get(acts[7].payload).response
    /\ Get(result).final_resolution = Get(acts[7].payload).response

\* The feedback line 332 owes to a decline.
ExpectedFeedback(signal) ==
    IF signal.followUp \in {Some(""), Some(" ")}
    THEN DefaultFeedback
    ELSE Get(signal.followUp)

\* C17: the first suggest_resolution invocation is given the empty string;
\* an invocation issued after a decline is given the decline's followUp, or
\* the default string when followUp is empty or blank.
C17_FeedbackPassed ==
    /\ Len(acts) >= 6 => acts[6].feedback = ""
    /\ (pc = "generating" /\ SRCount >= 2) =>
           /\ obs.consumed # None
           /\ ~Get(obs.consumed).approve
           /\ acts[Len(acts)].feedback = ExpectedFeedback(Get(obs.consumed))

\* A second candidate is being generated after a decline with a blank
\* followUp.
C17_Witness ==
    /\ pc = "generating"
    /\ SRCount = 2
    /\ obs.consumed = Some([approve |-> FALSE, followUp |-> Some(" ")])
    /\ acts[7].feedback = DefaultFeedback

\* The values the locals other than case_analysis_result may take.
AltLocals ==
    [strategy_result : Payloads(RS),
     bi_result : Payloads(BI),
     case_analysis_result : Payloads(CA),
     resolution_approved : BOOLEAN]

\* C20: a run with the same case analysis result returns the same
\* customer_retained and total_estimated_value, whatever the other tasks
\* returned and whether or not the resolution was approved.
C20_VerdictFromCaseAnalysisOnly ==
    pc = "returned" =>
        \A other \in AltLocals :
            other.case_analysis_result = Get(case_analysis_result) =>
                /\ CustomerRetained(other) = Get(result).customer_retained
                /\ TotalEstimatedValue(other) = Get(result).total_estimated_value

\* A run returned on a signal, its report task having failed and its case
\* analysis task having succeeded.
C20_Witness ==
    /\ pc = "returned"
    /\ obs.sigIn >= 1
    /\ ~Get(bi_result).success
    /\ Get(case_analysis_result).success

(***************************************************************************)
(* The Case Store                                                          *)
(***************************************************************************)

\* The steps of the orchestrator: run and its signal handler.
OrchestratorStep ==
    \/ ValidateRejects
    \/ StartPipeline
    \/ Stage2Joined
    \/ Stage3Done
    \/ Stage45Joined
    \/ ResolutionGenerated
    \/ ApprovalReceived
    \/ ApprovalTimeout
    \/ RunRaises
    \/ approve_resolution

EndedBySignal == obs.resolved \in {"fresh", "stale"}

\* C24: when two or more signals were delivered during a wait before the loop
\* read the latch, the loop acts on the last of them: it returns when that
\* one approved and generates another candidate when it declined.
C24_LastSignalWins ==
    (EndedBySignal /\ obs.sigCur >= 2 /\ pc \in {"generating", "returned"}) =>
        /\ obs.consumed # None
        /\ Get(obs.consumed).approve = (obs.lastIn = "approve")
        /\ (obs.lastIn = "approve") = (pc = "returned")

\* C27: a run that returned on reading a signal read an approving one; one
\* that read a declining signal is generating the next candidate, unapproved.
C27_DeclineNeverApproves ==
    (EndedBySignal /\ pc \in {"generating", "returned"}) =>
        IF Get(obs.consumed).approve
        THEN pc = "returned"
        ELSE pc = "generating" /\ ~resolution_approved

\* C28: a timeout ends the loop at whatever attempt it happens: the run has
\* returned, approved; and when the waits before it were each ended by one
\* decline, N in all, the result counts N+1 attempts and carries the
\* candidate of the last of the N+1 invocations.
C28_TimeoutEndsAnyCycle ==
    obs.timeouts >= 1 =>
        /\ pc = "returned"
        /\ obs.resolved = "timeout"
        /\ obs.timeouts = 1
        /\ Get(result).resolution_approved
        /\ ~obs.multi =>
             /\ obs.waits = obs.declIn + 1
             /\ SRCount = obs.declIn + 1
             /\ Get(result).resolution_attempts = obs.declIn + 1
             /\ Get(result).final_resolution =
                    Get(acts[5 + obs.declIn + 1].payload).response

\* One decline, a second candidate, and the second wait timed out.
C28_Witness ==
    /\ pc = "returned"
    /\ obs.resolved = "timeout"
    /\ ~obs.multi
    /\ obs.declIn = 1
    /\ Get(result).resolution_attempts = 2

\* C29: every result run returns has resolution_approved = true.
C29_ResultAlwaysApproved ==
    result # None => Get(result).resolution_approved = TRUE

\* A result returned after a decline.
C29_Witness ==
    /\ result # None
    /\ obs.consumed # None
    /\ obs.declIn >= 1
    /\ Get(result).resolution_attempts = 2

(***************************************************************************)
(* The case management tools (workers/python/tools/case_management.py),    *)
(* called by agent tasks that run in parallel.  A tool is cut at its redis *)
(* commands: update_case_state and update_case_context read the key        *)
(* (hgetall), compute the new state, and write it back (hset).             *)
(***************************************************************************)

\* Store tool calls begun, all tasks together.
MaxCalls == 3

\* The tasks that run in parallel in stage 2.
Tasks == {CI, OI}

\* The case id the orchestrator hands to its tasks.
TheCase == CaseId(5, [s |-> 0, us |-> 0])

\* agent_name of update_case_state and the slot it selects (lines 160-170).
AgentNames == {"customer_intelligence", "operations", "strategy",
               "communication", "billing"}
KnownAgents == AgentNames \ {"billing"}
SlotOf(agent) ==
    CASE agent = "customer_intelligence" -> "customer_profile"
      [] agent = "operations" -> "investigation"
      [] agent = "strategy" -> "strategy"
      [] agent = "communication" -> "communication_result"
Slots == {SlotOf(a) : a \in KnownAgents}

\* The arguments of update_case_context; None is an argument left out.
ContextArgs ==
    [urgency_level : {None, Some("high")},
     estimated_value : {None, Some(0), Some(900)},
     escalated : {None, Some(FALSE), Some(TRUE)},
     decision_point : {None, Some("escalate")}]

\* `if x:` of an optional string.
Truthy(o) == o # None /\ Get(o) # ""

\* Variant: every optional argument is tested for truth, so that 0.0 and
\* False count as left out.
ContextAppliedIfTruthy(state, a, t) ==
    LET s1 == IF Truthy(a.urgency_level)
              THEN [state EXCEPT !.urgency_level = Get(a.urgency_level)]
              ELSE state
        s2 == IF a.estimated_value # None /\ Get(a.estimated_value) # 0
              THEN [s1 EXCEPT !.estimated_value = Get(a.estimated_value)]
              ELSE s1
        s3 == IF a.escalated # None /\ Get(a.escalated)
              THEN [s2 EXCEPT !.priority_escalated = Get(a.escalated)]
              ELSE s2
    IN  IF Truthy(a.decision_point)
        THEN [s3 EXCEPT !.decision_points =
                 Append(@, [timestamp |-> t, decision |-> Get(a.decision_point)])]
        ELSE s3

\* Lines 212-224: the state update_case_context computes from the one read.
ContextApplied(state, a, t) ==
    LET s1 == IF Truthy(a.urgency_level)
              THEN [state EXCEPT !.urgency_level = Get(a.urgency_level)]
              ELSE state
        s2 == IF a.estimated_value # None
              THEN [s1 EXCEPT !.estimated_value = Get(a.estimated_value)]
              ELSE s1
        s3 == IF a.escalated # None
              THEN [s2 EXCEPT !.priority_escalated = Get(a.escalated)]
              ELSE s2
    IN  IF Truthy(a.decision_point)
        THEN [s3 EXCEPT !.decision_points =
                 Append(@, [timestamp |-> t, decision |-> Get(a.decision_point)])]
        ELSE s3

\* What a tool returned, when, and on which call.
Reply(t, op, ok, at, call) ==
    Some([task |-> t, op |-> op, ok |-> ok, at |-> at, call |-> call])

\* Lines 56-100: one hset of the whole state, then expire.  A case id left
\* out is generated from the customer and the time.
create_retention_case(t) ==
    /\ calls[t] = None
    /\ now < MaxCalls
    /\ now' = now + 1
    /\ \E c \in Customers, arg \in {None, Some(TheCase)} :
         LET k == IF arg = None THEN CaseId(c, [s |-> now', us |-> 0])
                  ELSE Get(arg)
         IN  /\ store' = Put(store, k, RetentionCaseState(k, c, now'))
             /\ ttl' = ttl \cup {k}
             /\ reply' = Reply(t, "create_retention_case", TRUE, now',
                               [case_id |-> k])
    /\ UNCHANGED <<workflow, dispatch, conversation, calls, acked>>

\* Lines 132-166: hgetall; a missing case or an unknown agent name ends the
\* call with an error, otherwise the slot is set in the state read.
update_case_state(t) ==
    /\ calls[t] = None
    /\ now < MaxCalls
    /\ now' = now + 1
    /\ \E k \in {TheCase} \cup DOMAIN store, agent \in AgentNames :
         IF k \in DOMAIN store /\ agent \in KnownAgents
         THEN /\ calls' = [calls EXCEPT ![t] =
                   Some([op |-> "update_case_state", case_id |-> k,
                         agent |-> Some(agent),
                         state |-> [store[k] EXCEPT ![SlotOf(agent)] = TRUE],
                         appended |-> None,
                         read |-> store[k], args |-> None])]
              /\ reply' = reply
         ELSE /\ calls' = calls
              /\ reply' = Reply(t, "update_case_state", FALSE, now',
                                [case_id |-> k, agent |-> Some(agent)])
    /\ UNCHANGED <<workflow, dispatch, conversation, store, acked, ttl>>

\* Variant: update_case_context starts from a fresh state when the case has
\* no record.
update_case_context_upsert(t) ==
    /\ calls[t] = None
    /\ now < MaxCalls
    /\ now' = now + 1
    /\ \E k \in {TheCase} \cup DOMAIN store, a \in ContextArgs :
         LET found == IF k \in DOMAIN store THEN store[k]
                      ELSE RetentionCaseState(k, 5, now')
         IN  /\ calls' = [calls EXCEPT ![t] =
                   Some([op |-> "update_case_context", case_id |-> k,
                         agent |-> None,
                         state |-> ContextApplied(found, a, now'),
                         appended |->
                             IF Truthy(a.decision_point)
                             THEN Some([timestamp |-> now',
                                        decision |-> Get(a.decision_point)])
                             ELSE None,
                         read |-> found, args |-> Some(a)])]
             /\ reply' = reply
    /\ UNCHANGED <<workflow, dispatch, conversation, store, acked, ttl>>

\* Lines 184-224: hgetall; a missing case ends the call with an error,
\* otherwise the supplied fields are set in the state read.
update_case_context(t) ==
    /\ calls[t] = None
    /\ now < MaxCalls
    /\ now' = now + 1
    /\ \E k \in {TheCase} \cup DOMAIN store, a \in ContextArgs :
         IF k \in DOMAIN store
         THEN /\ calls' = [calls EXCEPT ![t] =
                   Some([op |-> "update_case_context", case_id |-> k,
                         agent |-> None,
                         state |-> ContextApplied(store[k], a, now'),
                         appended |->
                             IF Truthy(a.decision_point)
                             THEN Some([timestamp |-> now',
                                        decision |-> Get(a.decision_point)])
                             ELSE None,
                         read |-> store[k], args |-> Some(a)])]
              /\ reply' = reply
         ELSE /\ calls' = calls
              /\ reply' = Reply(t, "update_case_context", FALSE, now',
                                [case_id |-> k, agent |-> None])
    /\ UNCHANGED <<workflow, dispatch, conversation, store, acked, ttl>>

\* Lines 170-176 and 227-232: hset of the state computed from the earlier
\* read, and the success message.  hset creates the key when it is gone.
hset(t) ==
    /\ calls[t] # None
    /\ LET call == Get(calls[t])
       IN  /\ store' = Put(store, call.case_id, call.state)
           /\ reply' = Reply(t, call.op, TRUE, now, call)
           /\ acked' = IF call.appended = None THEN acked
                       ELSE acked \cup {<<call.case_id, Get(call.appended)>>}
    /\ calls' = [calls EXCEPT ![t] = None]
    /\ UNCHANGED <<workflow, dispatch, conversation, now, ttl>>

\* Line 90: redis deletes the key when its 24 hours have passed.
Expire ==
    /\ \E k \in ttl :
         /\ k \in DOMAIN store
         /\ store' = Remove(store, k)
         /\ ttl' = ttl \ {k}
         /\ acked' = {e \in acked : e[1] # k}
    /\ UNCHANGED <<workflow, dispatch, conversation, calls, now, reply>>

InitStore ==
    /\ InitRun({5}, {[s |-> 0, us |-> 0]})
    /\ missing = {}
    /\ InitTools
    /\ InitConversation({{}})
    /\ InitDispatch({CHOOSE x \in Sites : x.workflow = "AgentWorkflow"})

NextStore ==
    \/ \E t \in Tasks : create_retention_case(t)
    \/ \E t \in Tasks : update_case_state(t)
    \/ \E t \in Tasks : update_case_context(t)
    \/ \E t \in Tasks : hset(t)
    \/ Expire

SpecStore == InitStore /\ [][NextStore]_vars

\* The tools called by one task only: no two calls overlap.
NextOneTask ==
    \/ create_retention_case(CI)
    \/ update_case_state(CI)
    \/ update_case_context(CI)
    \/ hset(CI)
    \/ Expire

SpecOneTask == InitStore /\ [][NextOneTask]_vars

IsPrefix(a, b) == Len(a) <= Len(b) /\ SubSeq(b, 1, Len(a)) = a

\* The cases that exist before and after a step.
Kept == DOMAIN store \cap DOMAIN store'

\* C21: decision_points of a case only grows at its end: whatever the tasks
\* do to the store, the log before a step is a prefix of the log after it,
\* and every entry whose append was reported is in the log.
C21_DecisionPointsAppendOnly ==
    [][/\ \A k \in Kept :
            IsPrefix(store[k].decision_points, store'[k].decision_points)
       /\ \A e \in acked' :
            e[1] \in DOMAIN store' =>
                \E i \in 1..Len(store'[e[1]].decision_points) :
                    store'[e[1]].decision_points[i] = e[2]]_vars

\* C22: a result slot that is written stays written, and a slot changes only
\* in the write of an update_case_state call made with its agent's name.
C22_SlotsWrittenOnceByOwner ==
    [][\A k \in Kept : \A slot \in Slots :
          /\ store[k][slot] => store'[k][slot]
          /\ store'[k][slot] # store[k][slot] =>
                 \E t \in Tasks :
                     /\ calls[t] # None
                     /\ calls'[t] = None
                     /\ Get(calls[t]).op = "update_case_state"
                     /\ Get(calls[t]).case_id = k
                     /\ slot = SlotOf(Get(Get(calls[t]).agent))]_vars

\* C23: customer_id, case_id and created_at of an existing case never change.
C23_IdentityImmutable ==
    [][\A k \in Kept :
          /\ store'[k].customer_id = store[k].customer_id
          /\ store'[k].case_id = store[k].case_id
          /\ store'[k].created_at = store[k].created_at]_vars

(***************************************************************************)
(* InteractiveConversationWorkflow (workers/python/workflows/              *)
(* interactive_conversation_workflow.py): one process_with_agent           *)
(* invocation per turn, then a wait of 30 minutes for a user_feedback      *)
(* signal.  The queries are functions of the workflow's fields.            *)
(***************************************************************************)

\* user_feedback signals sent to one conversation.
MaxFeedback == 3

\* Lines 80-98: the parameters run requires.
ConvRequired ==
    {"initial_query", "thread_id", "postgres_host", "postgres_port",
     "postgres_db", "postgres_user", "postgres_password", "ollama_base_url",
     "model_name", "redis_url"}
ConvConfigs == {{}} \cup {{q} : q \in ConvRequired \cup {"temperature"}}

InitialQuery == "first question"
ModelName == "llama3.2"
DefaultQuery == "Can you explain that further or provide more details?"

\* The follow-up questions of the model: those of Texts and a padded one.
ConvTexts == Texts \cup {" more "}

\* signal_data of user_feedback: a list [continue, question], [continue] or
\* [], or a bare bool.
RawFeedback ==
    {[list |-> TRUE, len |-> 0, first |-> FALSE, second |-> None]}
    \cup {[list |-> TRUE, len |-> 1, first |-> b, second |-> None] : b \in BOOLEAN}
    \cup {[list |-> TRUE, len |-> 2, first |-> b, second |-> q] :
             b \in BOOLEAN, q \in {None} \cup {Some(t) : t \in ConvTexts}}
    \cup {[list |-> FALSE, len |-> 0, first |-> b, second |-> None] : b \in BOOLEAN}

\* Lines 190-204: the UserFeedback the handler builds.
UserFeedback(signal_data) ==
    IF signal_data.list
    THEN [continue_conversation |->
              IF signal_data.len > 0 THEN signal_data.first ELSE FALSE,
          follow_up_query |->
              IF signal_data.len > 1 THEN signal_data.second ELSE None]
    ELSE [continue_conversation |-> signal_data.first, follow_up_query |-> None]

\* The dicts process_with_agent may return.
ProcessPayloads ==
    {[success |-> TRUE, response |-> "answer_a", model_used |-> ModelName],
     [success |-> TRUE, response |-> "answer_b", model_used |-> ModelName],
     [success |-> FALSE, response |-> "Error: agent failed", model_used |-> ModelName]}

\* Lines 118-124
ConversationTurn(query, res, t) ==
    [query |-> query,
     response |-> DictGet(res, "response", ""),
     model_used |-> DictGet(res, "model_used", ModelName),
     success |-> DictGet(res, "success", FALSE),
     timestamp |-> t]

\* Variant: only the latest turn is kept.
HistoryReplaced(history, turn) == <<turn>>

\* Line 125: self.conversation_history.append(turn)
HistoryAppended(history, turn) == Append(history, turn)

\* Lines 206-218: the query get_conversation_history.
get_conversation_history ==
    [i \in 1..Len(conversation_history) |->
        [query |-> conversation_history[i].query,
         response |-> conversation_history[i].response,
         model_used |-> conversation_history[i].model_used,
         success |-> conversation_history[i].success,
         timestamp |-> conversation_history[i].timestamp]]

\* Lines 234-237: the query is_waiting_for_feedback.
is_waiting_for_feedback == continue_conversation /\ latest_user_feedback = None

\* Variant: final_response is the response of the first turn.
SummaryOfFirst(history) ==
    [conversation_complete |-> TRUE,
     total_turns |-> Len(history),
     final_response |-> IF history # <<>> THEN history[1].response ELSE "",
     conversation_history |->
        [i \in 1..Len(history) |->
            [query |-> history[i].query,
             response |-> history[i].response,
             success |-> history[i].success,
             timestamp |-> history[i].timestamp]]]

\* Lines 159-174: the summary run returns (thread_id and model_used, which
\* are parameters handed through, are left out).
Summary(history) ==
    [conversation_complete |-> TRUE,
     total_turns |-> Len(history),
     final_response |-> IF history # <<>> THEN history[Len(history)].response ELSE "",
     conversation_history |->
        [i \in 1..Len(history) |->
            [query |-> history[i].query,
             response |-> history[i].response,
             success |-> history[i].success,
             timestamp |-> history[i].timestamp]]]

ConvClosed == cpc \in {"returned", "failed", "rejected"}

casestore == <<store, calls, acked, reply, ttl>>

\* Lines 93-98: a missing parameter raises ValueError.
ConvValidateRejects ==
    /\ cpc = "start"
    /\ cmissing # {}
    /\ cpc' = "rejected"
    /\ UNCHANGED <<workflow, dispatch, casestore, now, cmissing, continue_conversation,
                   latest_user_feedback, conversation_history, current_query,
                   process, summary, cobs>>

\* Variant: the loop goes on whatever the feedback said.
ConvLoopForever(continue) == TRUE

\* Line 107: while self.continue_conversation
ConvLoopContinues(continue) == continue

\* Lines 107-115 and 158-174: the loop condition; either the next
\* process_with_agent invocation is issued or the summary is returned.
\* seen is the observer's record of the step so far.
ConvLoopHead(query, seen) ==
    /\ current_query' = query
    /\ IF ConvLoopContinues(continue_conversation')
       THEN /\ process' = Some([query |-> query, status |-> "running",
                                payload |-> None])
            /\ cpc' = "processing"
            /\ summary' = summary
            /\ cobs' = [seen EXCEPT !.invoked = @ + 1]
       ELSE /\ process' = process
            /\ cpc' = "returned"
            /\ summary' = Some(Summary(conversation_history))
            /\ cobs' = seen

\* Lines 100-115: the first turn.
ConvStart ==
    /\ cpc = "start"
    /\ cmissing = {}
    /\ continue_conversation' = continue_conversation
    /\ ConvLoopHead(InitialQuery, cobs)
    /\ UNCHANGED <<workflow, dispatch, casestore, now, cmissing, latest_user_feedback,
                   conversation_history>>

\* The task invoker delivers the result of the invocation in flight.
ProcessReturns ==
    /\ cpc = "processing"
    /\ Get(process).status = "running"
    /\ \E res \in ProcessPayloads :
         process' = Some([Get(process) EXCEPT !.status = "returned",
                                              !.payload = Some(res)])
    /\ cobs' = [cobs EXCEPT !.completed = @ + 1]
    /\ UNCHANGED <<workflow, dispatch, casestore, now, cmissing, cpc, continue_conversation,
                   latest_user_feedback, conversation_history, current_query,
                   summary>>

\* The task invoker gives up on the invocation in flight.
ProcessRaises ==
    /\ cpc = "processing"
    /\ Get(process).status = "running"
    /\ process' = Some([Get(process) EXCEPT !.status = "raised"])
    /\ UNCHANGED <<workflow, dispatch, casestore, now, cmissing, cpc, continue_conversation,
                   latest_user_feedback, conversation_history, current_query,
                   summary, cobs>>

\* Variant: the latch is cleared before the wait begins.
TurnRecordedCleared ==
    /\ cpc = "processing"
    /\ Get(process).status = "returned"
    /\ now' = now + 1
    /\ conversation_history' =
           HistoryAppended(conversation_history,
               ConversationTurn(current_query, Get(Get(process).payload), now'))
    /\ latest_user_feedback' = None
    /\ cpc' = "waiting"
    /\ UNCHANGED <<workflow, dispatch, casestore, cmissing, continue_conversation,
                   current_query, process, summary, cobs>>

\* Lines 117-133: the turn is appended and the wait begins.
TurnRecorded ==
    /\ cpc = "processing"
    /\ Get(process).status = "returned"
    /\ now' = now + 1
    /\ conversation_history' =
           HistoryAppended(conversation_history,
               ConversationTurn(current_query, Get(Get(process).payload), now'))
    /\ cpc' = "waiting"
    /\ UNCHANGED <<workflow, dispatch, casestore, cmissing, continue_conversation,
                   latest_user_feedback, current_query, process, summary, cobs>>

\* Awaiting the invocation raised ActivityError: run raises.
ConvRunRaises ==
    /\ cpc = "processing"
    /\ Get(process).status = "raised"
    /\ cpc' = "failed"
    /\ UNCHANGED <<workflow, dispatch, casestore, now, cmissing, continue_conversation,
                   latest_user_feedback, conversation_history, current_query,
                   process, summary, cobs>>

\* Lines 176-204: the signal handler, at any time while the workflow is open.
user_feedback ==
    /\ ~ConvClosed
    /\ cobs.signals < MaxFeedback
    /\ \E signal_data \in RawFeedback :
         latest_user_feedback' = Some(UserFeedback(signal_data))
    /\ cobs' = [cobs EXCEPT !.signals = @ + 1,
                            !.held = IF cpc = "processing"
                                     THEN latest_user_feedback' ELSE @]
    /\ UNCHANGED <<workflow, dispatch, casestore, now, cmissing, cpc, continue_conversation,
                   conversation_history, current_query, process, summary>>

\* Variant: the follow-up question is stripped before it is used.
NextQueryStripped(feedback) ==
    IF feedback.follow_up_query # None
         /\ Strip(Get(feedback.follow_up_query)) # ""
    THEN Strip(Get(feedback.follow_up_query))
    ELSE DefaultQuery

\* Lines 149-156: the query of the next turn.
NextQuery(feedback) ==
    IF feedback.follow_up_query # None
         /\ Get(feedback.follow_up_query) # ""
         /\ Strip(Get(feedback.follow_up_query)) # ""
    THEN Get(feedback.follow_up_query)
    ELSE DefaultQuery

\* Lines 135-156 with the condition of wait_condition true: the latched
\* feedback is read and cleared.
FeedbackReceived ==
    /\ cpc = "waiting"
    /\ latest_user_feedback # None
    /\ latest_user_feedback' = None
    /\ LET feedback == Get(latest_user_feedback) IN
         /\ continue_conversation' = feedback.continue_conversation
         /\ ConvLoopHead(IF feedback.continue_conversation
                         THEN NextQuery(feedback) ELSE current_query,
                         [cobs EXCEPT !.consumed = latest_user_feedback,
                                      !.held = None,
                                      !.early = IF cobs.held = latest_user_feedback
                                                THEN @ + 1 ELSE @,
                                      !.continued = IF feedback.continue_conversation
                                                    THEN @ + 1 ELSE @])
    /\ UNCHANGED <<workflow, dispatch, casestore, now, cmissing, conversation_history>>

\* Lines 130-133: thirty minutes passed with no feedback latched.
\* wait_condition raises asyncio.TimeoutError (the retention workflow
\* catches it at its lines 319-339); nothing catches it here, so it leaves
\* run: lines 135-174 are not executed and no summary is returned.  (Lines
\* 139-142 are never reached: wait_condition returns only when the latch is
\* set, and only line 137 clears it.)
FeedbackTimeout ==
    /\ cpc = "waiting"
    /\ latest_user_feedback = None
    /\ cpc' = "failed"
    /\ cobs' = [cobs EXCEPT !.timeouts = @ + 1]
    /\ UNCHANGED <<workflow, dispatch, casestore, now, cmissing, continue_conversation,
                   latest_user_feedback, conversation_history, current_query,
                   process, summary>>

InitConv ==
    /\ InitRun({5}, {[s |-> 0, us |-> 0]})
    /\ missing = {}
    /\ InitTools
    /\ InitConversation(ConvConfigs)
    /\ InitDispatch({CHOOSE x \in Sites : x.workflow = "AgentWorkflow"})

NextConv ==
    \/ ConvValidateRejects
    \/ ConvStart
    \/ ProcessReturns
    \/ ProcessRaises
    \/ TurnRecorded
    \/ ConvRunRaises
    \/ user_feedback
    \/ FeedbackReceived
    \/ FeedbackTimeout

SpecConv == InitConv /\ [][NextConv]_vars

C30_WaitingQueryExact ==
    cpc \in {"processing", "waiting", "returned"} =>
        (is_waiting_for_feedback <=> cpc = "waiting")

\* C31: when the feedback wait elapses with no user_feedback signal, run
\* issues no further process_with_agent invocation and returns the summary
\* with conversation_complete true; it does not fail.
C31_TimeoutEndsNormally ==
    cobs.timeouts > 0 =>
        /\ cpc = "returned"
        /\ summary # None
        /\ Get(summary).conversation_complete

\* A step of run that reads and clears the latched feedback.
Consumes == cpc = "waiting" /\ latest_user_feedback # None /\ latest_user_feedback' = None

\* A step that issues a process_with_agent invocation.
Invokes == process' # process /\ process' # None /\ Get(process').status = "running"

\* C32: consuming a feedback with continue_conversation false issues no
\* invocation and returns the summary, after which none is ever issued;
\* consuming one with continue_conversation true issues exactly one
\* invocation, and no other step after the first turn issues any, so that
\* at every wait the invocations issued are the feedbacks consumed plus one.
C32_ContinuesUntilSatisfied ==
    [][/\ Consumes /\ ~Get(latest_user_feedback).continue_conversation =>
              ~Invokes /\ cpc' = "returned" /\ summary' # None
       /\ Consumes /\ Get(latest_user_feedback).continue_conversation =>
              /\ Invokes
              /\ cpc' = "processing"
              /\ cobs'.invoked = cobs.invoked + 1
       /\ Invokes => cpc = "start" \/ Consumes
       /\ cpc = "returned" => ~Invokes /\ cpc' = "returned"
       /\ cpc' = "waiting" => cobs'.invoked = cobs'.continued + 1]_vars

\* The run returned after two feedbacks that continued and one that did not.
C32_Witness ==
    /\ cpc = "returned"
    /\ cobs.continued = 2
    /\ cobs.invoked = 3
    /\ cobs.consumed # None
    /\ ~Get(cobs.consumed).continue_conversation

\* The follow-up question of a feedback is present and not blank.
HasQuestion(feedback) ==
    /\ feedback.follow_up_query # None
    /\ Get(feedback.follow_up_query) \notin {"", " "}

\* C33: the first turn's query is initial_query; the invocation issued on
\* consuming a continuing feedback has the feedback's follow_up_query, as
\* sent, when that is present and not blank, and the default question when
\* it is missing, empty or blank; and each turn recorded carries the query
\* of the invocation it completes.
C33_QueryOfEachTurn ==
    [][/\ Len(conversation_history') >= 1 =>
              conversation_history'[1].query = InitialQuery
       /\ Consumes /\ Get(latest_user_feedback).continue_conversation =>
              LET feedback == Get(latest_user_feedback) IN
                  /\ HasQuestion(feedback) =>
                         Get(process').query = Get(feedback.follow_up_query)
                  /\ ~HasQuestion(feedback) => Get(process').query = DefaultQuery
       /\ Len(conversation_history') = Len(conversation_history) + 1 =>
              conversation_history'[Len(conversation_history')].query
                  = Get(process).query]_vars

\* Three turns: the initial query, a padded follow-up and the default.
C33_Witness ==
    /\ Len(conversation_history) = 3
    /\ conversation_history[1].query = InitialQuery
    /\ conversation_history[2].query = " more "
    /\ conversation_history[3].query = DefaultQuery

\* C34: a feedback latched while an invocation is in flight is still
\* latched when the wait begins, and a wait that begins or finds itself with
\* a latched feedback ends by consuming that feedback, never by timeout;
\* reading the latch clears it, and only a new signal sets it again, so no
\* feedback is consumed twice.
C34_FeedbackRetainedConsumedOnce ==
    [][/\ cpc = "processing" /\ cobs'.signals = cobs.signals =>
              latest_user_feedback' = latest_user_feedback
       /\ cpc = "processing" /\ cpc' = "waiting" /\ cobs.held # None =>
              latest_user_feedback' = cobs.held
       /\ cpc = "waiting" /\ cpc' # "waiting" /\ latest_user_feedback # None =>
              Consumes /\ cobs'.consumed = latest_user_feedback
       /\ Consumes => latest_user_feedback' = None
       /\ latest_user_feedback = None /\ latest_user_feedback' # None =>
              cobs'.signals = cobs.signals + 1]_vars

\* Two feedbacks, each delivered while an invocation was in flight, have
\* each been consumed by the wait that followed, and the third invocation
\* is in flight with the latch empty.
C34_Witness ==
    /\ cobs.early = 2
    /\ cobs.signals = 2
    /\ cobs.invoked = 3
    /\ cpc = "processing"
    /\ latest_user_feedback = None

\* The invocations issued whose result has not been delivered.
ProcessInFlight == cobs.invoked - cobs.completed

\* C35: at most one process_with_agent invocation is in flight at a time;
\* whenever run waits or has returned, the turns are as many as the
\* invocations that completed; and a returned summary has that number as
\* total_turns, at least 1, and the response of the last completed
\* invocation as final_response.
C35_OneTurnPerInvocation ==
    /\ ProcessInFlight \in {0, 1}
    /\ cpc \in {"waiting", "returned"} =>
           ProcessInFlight = 0 /\ Len(conversation_history) = cobs.completed
    /\ summary # None =>
           /\ Get(summary).total_turns = cobs.completed
           /\ Get(summary).total_turns >= 1
           /\ Get(summary).final_response
                  = DictGet(Get(Get(process).payload), "response", "")

\* A summary of two turns whose responses differ.
C35_Witness ==
    /\ summary # None
    /\ Get(summary).total_turns = 2
    /\ cobs.completed = 2
    /\ conversation_history[1].response # Get(summary).final_response

\* The agent names update_case_state accepts, as the claim lists them.
NamedAgents == {"customer_intelligence", "operations", "strategy", "communication"}

\* A tool call begins in this step.
Begins == now' = now + 1

\* This step ends a call of update_case_state or update_case_context with
\* an error message.
ErrorReturned ==
    /\ Begins
    /\ reply' # None
    /\ Get(reply').at = now'
    /\ ~Get(reply').ok

\* C36: a call of update_case_state or update_case_context for a case id
\* with no record, and a call of update_case_state with an agent name
\* outside the four, returns an error and writes nothing then or later: a
\* call that goes on to its hset has read an existing record under one of
\* the four names, a call that does not has returned an error in the same
\* step with the store, the expiry times and the pending writes as they
\* were, and a record that appears where there was none was written by
\* create_retention_case or by the hset of a call that had read the record.
C36_ErrorsLeaveStoreUnchanged ==
    [][/\ \A t \in Tasks :
              calls[t] = None /\ calls'[t] # None =>
                  LET call == Get(calls'[t]) IN
                      /\ call.case_id \in DOMAIN store
                      /\ call.op = "update_case_state" =>
                             Get(call.agent) \in NamedAgents
       /\ Begins /\ calls' = calls /\ store' = store => ErrorReturned
       /\ ErrorReturned =>
              /\ store' = store /\ ttl' = ttl /\ calls' = calls
              /\ LET r == Get(reply') IN
                     \/ r.call.case_id \notin DOMAIN store
                     \/ r.op = "update_case_state"
                            /\ Get(r.call.agent) \notin NamedAgents
       /\ \A k \in DOMAIN store' \ DOMAIN store :
              LET r == Get(reply') IN
                  /\ r.ok
                  /\ r.call.case_id = k
                  /\ r.op # "create_retention_case" =>
                         \E t \in Tasks : calls[t] # None /\ calls'[t] = None]_vars

\* update_case_context has just returned an error for a case id that has
\* no record, while the store holds another case.
C36_Witness ==
    /\ reply # None
    /\ ~Get(reply).ok
    /\ Get(reply).at = now
    /\ Get(reply).op = "update_case_context"
    /\ Get(reply).call.case_id \notin DOMAIN store
    /\ DOMAIN store # {}

\* The fields of a case record update_case_context has no argument for.
OtherFields ==
    {"case_id", "customer_id", "created_at", "customer_profile",
     "investigation", "strategy", "communication_result"}

\* Task t writes back, in this step, what its update_case_context call
\* computed, and the record is still the one the call read.
ContextWritten(t) ==
    /\ calls[t] # None
    /\ calls'[t] = None
    /\ Get(calls[t]).op = "update_case_context"
    /\ Get(calls[t]).case_id \in DOMAIN store
    /\ store[Get(calls[t]).case_id] = Get(calls[t]).read

\* C37: with no other writer between its read and its write,
\* update_case_context sets urgency_level, estimated_value and
\* priority_escalated to the argument supplied (0.0 and false included)
\* and leaves each as it was when the argument is left out, appends one
\* entry to decision_points when decision_point is supplied and leaves the
\* log as it was otherwise, and changes no other field of the record and
\* no other record.
C37_ContextUpdateIsPartial ==
    [][\A t \in Tasks :
          ContextWritten(t) =>
              LET k == Get(calls[t]).case_id
                  a == Get(Get(calls[t]).args)
                  old == store[k]
                  new == store'[k]
              IN  /\ DOMAIN store' = DOMAIN store
                  /\ \A x \in DOMAIN store \ {k} : store'[x] = store[x]
                  /\ \A f \in OtherFields : new[f] = old[f]
                  /\ new.urgency_level =
                         IF a.urgency_level = None THEN old.urgency_level
                         ELSE Get(a.urgency_level)
                  /\ new.estimated_value =
                         IF a.estimated_value = None THEN old.estimated_value
                         ELSE Get(a.estimated_value)
                  /\ new.priority_escalated =
                         IF a.escalated = None THEN old.priority_escalated
                         ELSE Get(a.escalated)
                  /\ a.decision_point = None =>
                         new.decision_points = old.decision_points
                  /\ a.decision_point # None =>
                         /\ Len(new.decision_points) = Len(old.decision_points) + 1
                         /\ IsPrefix(old.decision_points, new.decision_points)
                         /\ new.decision_points[Len(new.decision_points)].decision
                                = Get(a.decision_point)]_vars

\* update_case_context has written an estimated_value of 0 over 900 and an
\* escalated of false over true, and the urgency level set by an earlier
\* call, for which this call had no argument, is still there.
C37_Witness ==
    /\ reply # None
    /\ Get(reply).ok
    /\ Get(reply).op = "update_case_context"
    /\ LET call == Get(reply).call
           a == Get(call.args)
       IN  /\ call.case_id \in DOMAIN store
           /\ a.estimated_value = Some(0)
           /\ call.read.estimated_value = 900
           /\ store[call.case_id].estimated_value = 0
           /\ a.escalated = Some(FALSE)
           /\ call.read.priority_escalated
           /\ ~store[call.case_id].priority_escalated
           /\ a.urgency_level = None
           /\ store[call.case_id].urgency_level = "high"

(***************************************************************************)
(* The dispatch of an activity task: the worker of the workflow's task     *)
(* queue looks the activity name up among its registered activities and    *)
(* calls the function with the arguments of the invocation, positionally.  *)
(***************************************************************************)

\* The worker looks for the activity among those registered on the queue.
Lookup ==
    /\ outcome = "scheduled"
    /\ outcome' = IF site.activity \in Registered(WorkflowQueue(site.workflow))
                  THEN "binding" ELSE "not_registered"
    /\ UNCHANGED <<workflow, casestore, now, conversation, site, bound>>

\* fn(*args): the next argument is bound to the next parameter; an argument
\* beyond the last parameter is a TypeError.
BindNext ==
    /\ outcome = "binding"
    /\ Len(bound) < Len(site.args)
    /\ IF Len(bound) < Len(Params(site.activity))
       THEN /\ bound' = Append(bound, <<Params(site.activity)[Len(bound) + 1],
                                        site.args[Len(bound) + 1]>>)
            /\ outcome' = outcome
       ELSE /\ bound' = bound
            /\ outcome' = "TypeError"
    /\ UNCHANGED <<workflow, casestore, now, conversation, site>>

\* All arguments are bound: the call goes ahead when the parameters left
\* over all have defaults.
Call ==
    /\ outcome = "binding"
    /\ Len(bound) = Len(site.args)
    /\ outcome' = IF Len(Params(site.activity)) - Len(bound) <= Defaults(site.activity)
                  THEN "called" ELSE "TypeError"
    /\ UNCHANGED <<workflow, casestore, now, conversation, site, bound>>

InitWorker ==
    /\ InitRun({5}, {[s |-> 0, us |-> 0]})
    /\ missing = {}
    /\ InitTools
    /\ InitConversation({{}})
    /\ InitDispatch(Sites)

NextWorker == Lookup \/ BindNext \/ Call

SpecWorker == InitWorker /\ [][NextWorker]_vars

\* C26: every invocation names an activity registered on its workflow's
\* task queue, and its arguments are as many as the activity's parameters
\* and each is the one its parameter is for: the dispatch never ends in an
\* unregistered name or a TypeError, and no argument is bound to another
\* parameter than its own.
C26_InvocationsMatchSignatures ==
    /\ outcome \notin {"not_registered", "TypeError"}
    /\ \A i \in 1..Len(bound) : Carries(bound[i][2]) = bound[i][1]
    /\ outcome = "called" => Len(site.args) = Len(Params(site.activity))
====
